---- MODULE Spec2Model ----
(***************************************************************************)
(* A model of the wts-core repository (src/wts-core/src/lib.rs): the       *)
(* on-disk layout under <root>/.wts, the reference files, the commit       *)
(* records, the tensor blobs, the content hasher and the commit iterator.  *)
(*                                                                         *)
(* Text (file names, reference contents, hex digests) is a sequence of     *)
(* tokens, each token a TLA+ string standing for a substring; a path is a  *)
(* sequence of such components, relative to the repository root.  Bytes    *)
(* are naturals below 256.                                                 *)
(***************************************************************************)
EXTENDS Integers, Sequences, FiniteSets, TLC

VARIABLES
    dirs,       \* the directories that exist, as paths (<<>> is the root)
    files,      \* the regular files that exist: path -> content
    last,       \* the most recent call and its result
    prev,       \* the latest reference or commit write made before `last`
    iter,       \* the CommitIterator: current_hash and what it yielded
    hist,       \* the last two hash_tensors calls (input, digest)
    ncommits,   \* create_commit calls made so far
    nrefs,      \* create_branch / create_tag calls made so far
    procs       \* the processes at work on the repository, step by step

vars == <<dirs, files, last, prev, iter, hist, ncommits, nrefs, procs>>

(***************************************************************************)
(* Bounds of the exploration.                                              *)
(***************************************************************************)
MaxCommits == 2
MaxRefs == 2
MaxIter == 3

(***************************************************************************)
(* Option<T>: None carries the empty value.                                *)
(***************************************************************************)
None == [some |-> FALSE, val |-> <<>>]
Some(v) == [some |-> TRUE, val |-> v]

(***************************************************************************)
(* Results.  A call returns Ok(v) or Err(kind) where kind is the name of   *)
(* the WTSError variant (io::Result failures are "Io").                    *)
(***************************************************************************)
WTSError == {"Io", "EmptyRepository", "ObjectNotFound", "InvalidReference",
             "SafeTensorError", "Other"}

Ok(v) == [ok |-> TRUE, err |-> "", val |-> v]
Err(kind) == [ok |-> FALSE, err |-> kind, val |-> <<>>]
\* a variant with the string it carries
ErrWith(kind, detail) == [ok |-> FALSE, err |-> kind, val |-> detail]

(***************************************************************************)
(* The file system.  A write or a directory creation either succeeds,      *)
(* or fails leaving the disk as it was ("err": permission denied, no space *)
(* left, read-only or unavailable file system).                            *)
(***************************************************************************)
IoOutcomes == {"ok", "err"}

Text(s) == [kind |-> "text", text |-> s]

Parent(path) == SubSeq(path, 1, Len(path) - 1)
Prefixes(path) == {SubSeq(path, 1, n) : n \in 0..Len(path)}

\* a write that keeps a file that already exists (create_new)
fs_write_noclobber(fs, ds, path, content, io) ==
    IF Parent(path) \notin ds \/ path \in ds \/ io = "err"
    THEN [ok |-> FALSE, files |-> fs]
    ELSE [ok |-> TRUE,
          files |-> [p \in DOMAIN fs \cup {path} |->
                        IF p \in DOMAIN fs THEN fs[p] ELSE content]]

\* std::fs::write(path, content): create or truncate, then write everything
fs_write(fs, ds, path, content, io) ==
    IF Parent(path) \notin ds \/ path \in ds \/ io = "err"
    THEN [ok |-> FALSE, files |-> fs]
    ELSE [ok |-> TRUE,
          files |-> [p \in DOMAIN fs \cup {path} |->
                        IF p = path THEN content ELSE fs[p]]]

\* std::fs::create_dir_all(path): the directory and every missing ancestor
create_dir_all(fs, ds, path, io) ==
    IF io = "err" \/ \E p \in Prefixes(path) : p \in DOMAIN fs
    THEN [ok |-> FALSE, dirs |-> ds]
    ELSE [ok |-> TRUE, dirs |-> ds \cup Prefixes(path)]

(***************************************************************************)
(* The layout under the root.                                              *)
(***************************************************************************)
WtsDir == << <<".wts">> >>
ObjectsDir == WtsDir \o << <<"objects">> >>
HeadsDir == WtsDir \o << <<"refs">>, <<"heads">> >>
TagsDir == WtsDir \o << <<"refs">>, <<"tags">> >>
CommitsDir == WtsDir \o << <<"commits">> >>
HeadPath == WtsDir \o << <<"HEAD">> >>
HeadText == <<"ref: ref/heads/main">>

(***************************************************************************)
(* Whitespace and str::trim.                                               *)
(***************************************************************************)
White == {" ", "\n", "\t", "\r"}

RECURSIVE TrimStart(_)
TrimStart(s) ==
    IF s # <<>> /\ Head(s) \in White THEN TrimStart(Tail(s)) ELSE s

RECURSIVE TrimEnd(_)
TrimEnd(s) ==
    IF s # <<>> /\ s[Len(s)] \in White
    THEN TrimEnd(SubSeq(s, 1, Len(s) - 1)) ELSE s

Trim(s) == TrimEnd(TrimStart(s))

(***************************************************************************)
(* Inputs of the reference operations.                                     *)
(***************************************************************************)
RefNames == {<<"main">>, <<"dev">>}
RefHashes == {<<"a", "b">>, <<" ", "a", "b">>, <<"c", "d", "\n">>}
RefPaths ==
    {<< <<"refs">>, <<"heads">>, n >> : n \in RefNames}
        \cup {<< <<"refs">>, <<"tags">>, n >> : n \in RefNames}
        \cup {<< <<"HEAD">> >>, << <<"refs">>, <<"heads">> >>}

NoCall == [op |-> "none", res |-> Ok(<<>>)]

\* `prev` keeps the most recent write of a reference or a commit made
\* before the call in `last`
IsWrite(call) == call.op \in {"create_branch", "create_tag", "create_commit"}
Shift == prev' = IF IsWrite(last) THEN last ELSE prev

(***************************************************************************)
(* Repository::new(path), for path = the root.                             *)
(***************************************************************************)
New(io) ==
    LET r == IF <<>> \notin dirs
             THEN create_dir_all(files, dirs, WtsDir, io)
             ELSE [ok |-> TRUE, dirs |-> dirs]
    IN  /\ dirs' = r.dirs
        /\ Shift
        /\ last' = [op |-> "new", res |-> IF r.ok THEN Ok(<<>>) ELSE Err("Io")]
        /\ UNCHANGED <<procs, files, iter, hist, ncommits, nrefs>>

(***************************************************************************)
(* Repository::open(): the root is the current directory.  current_dir()   *)
(* fails when the current directory does not exist.                        *)
(***************************************************************************)
current_dir(ds) == IF <<>> \in ds THEN Ok(<<>>) ELSE Err("Io")

open_result(ds) ==
    LET root == current_dir(ds)
    IN  IF ~ root.ok THEN Err("Io")
        ELSE IF root.val \notin ds THEN Err("EmptyRepository")
        ELSE Ok(root.val)

Open ==
    /\ Shift
    /\ last' = [op |-> "open", res |-> open_result(dirs)]
    /\ UNCHANGED <<procs, dirs, files, iter, hist, ncommits, nrefs>>

\* Repository::is_initialized
is_initialized == WtsDir \in dirs \/ WtsDir \in DOMAIN files

(***************************************************************************)
(* Repository::init(): four create_dir_all calls and the HEAD write, each  *)
(* returning early on failure.  `failAt` is the step whose I/O fails (0:   *)
(* none, 5: the HEAD write).                                               *)
(***************************************************************************)
InitSteps == <<ObjectsDir, HeadsDir, TagsDir, CommitsDir>>

RECURSIVE init_dirs(_, _, _, _)
init_dirs(fs, ds, i, failAt) ==
    IF i > Len(InitSteps) THEN [ok |-> TRUE, dirs |-> ds]
    ELSE LET r == create_dir_all(fs, ds, InitSteps[i],
                                 IF failAt = i THEN "err" ELSE "ok")
         IN  IF r.ok THEN init_dirs(fs, r.dirs, i + 1, failAt) ELSE r

\* init that starts from an empty control directory
InitRepo_wiping(failAt) ==
    LET d == init_dirs(files, dirs, 1, failAt)
        w == IF d.ok
             THEN fs_write(<< >>, d.dirs, HeadPath, Text(HeadText),
                           IF failAt = 5 THEN "err" ELSE "ok")
             ELSE [ok |-> FALSE, files |-> files]
    IN  /\ dirs' = d.dirs
        /\ files' = w.files
        /\ Shift
        /\ last' = [op |-> "init", res |-> IF w.ok THEN Ok(<<>>) ELSE Err("Io")]
        /\ UNCHANGED <<procs, iter, hist, ncommits, nrefs>>

InitRepo(failAt) ==
    LET d == init_dirs(files, dirs, 1, failAt)
        w == IF d.ok
             THEN fs_write(files, d.dirs, HeadPath, Text(HeadText),
                           IF failAt = 5 THEN "err" ELSE "ok")
             ELSE [ok |-> FALSE, files |-> files]
    IN  /\ dirs' = d.dirs
        /\ files' = w.files
        /\ Shift
        /\ last' = [op |-> "init", res |-> IF w.ok THEN Ok(<<>>) ELSE Err("Io")]
        /\ UNCHANGED <<procs, iter, hist, ncommits, nrefs>>

(***************************************************************************)
(* Repository::create_branch and Repository::create_tag.                   *)
(***************************************************************************)
create_ref(dir, op, name, commit_hash, io) ==
    LET w == fs_write(files, dirs, dir \o <<name>>, Text(commit_hash), io)
    IN  /\ nrefs < MaxRefs
        /\ nrefs' = nrefs + 1
        /\ files' = w.files
        /\ Shift
        /\ last' = [op |-> op, name |-> name, hash |-> commit_hash,
                    res |-> IF w.ok THEN Ok(<<>>) ELSE Err("Io")]
        /\ UNCHANGED <<procs, dirs, iter, hist, ncommits>>

CreateBranch(name, commit_hash, io) ==
    create_ref(HeadsDir, "create_branch", name, commit_hash, io)

\* create_branch and create_tag by a caller whose call the history
\* variables do not record
BranchUnobserved(name, commit_hash, io) ==
    /\ nrefs < MaxRefs
    /\ nrefs' = nrefs + 1
    /\ files' = fs_write(files, dirs, HeadsDir \o <<name>>, Text(commit_hash), io).files
    /\ UNCHANGED <<procs, dirs, last, prev, iter, hist, ncommits>>

TagUnobserved(name, commit_hash, io) ==
    /\ nrefs < MaxRefs
    /\ nrefs' = nrefs + 1
    /\ files' = fs_write(files, dirs, TagsDir \o <<name>>, Text(commit_hash), io).files
    /\ UNCHANGED <<procs, dirs, last, prev, iter, hist, ncommits>>

\* create_tag that keeps tags in the namespace of the branches
CreateTag_in_heads(name, commit_hash, io) ==
    create_ref(HeadsDir, "create_tag", name, commit_hash, io)

CreateTag(name, commit_hash, io) ==
    create_ref(TagsDir, "create_tag", name, commit_hash, io)

(***************************************************************************)
(* Repository::get_reference(ref_path): read_to_string fails on a missing  *)
(* file, on a directory and on a file that is not text.                    *)
(***************************************************************************)
read_to_string(fs, path) ==
    IF path \in DOMAIN fs /\ fs[path].kind \in {"text", "json"}
    THEN Ok(fs[path])
    ELSE Err("Io")

\* a serialized commit record starts with "{" and ends with "}": trim keeps it
trim_content(c) == IF c.kind = "text" THEN Trim(c.text) ELSE c

\* get_reference returning the file as it is
get_reference_untrimmed(fs, ref_path) ==
    LET r == read_to_string(fs, WtsDir \o ref_path)
    IN  IF r.ok THEN Ok(IF r.val.kind = "text" THEN r.val.text ELSE r.val)
        ELSE ErrWith("InvalidReference", ref_path)

\* get_reference passing the read failure on with `?`
get_reference_io(fs, ref_path) ==
    LET r == read_to_string(fs, WtsDir \o ref_path)
    IN  IF r.ok THEN Ok(trim_content(r.val)) ELSE Err("Io")

get_reference(fs, ref_path) ==
    LET r == read_to_string(fs, WtsDir \o ref_path)
    IN  IF r.ok THEN Ok(trim_content(r.val))
        ELSE ErrWith("InvalidReference", ref_path)

GetReference(ref_path) ==
    /\ Shift
    /\ last' = [op |-> "get_reference", path |-> ref_path,
                res |-> get_reference(files, ref_path)]
    /\ UNCHANGED <<procs, dirs, files, iter, hist, ncommits, nrefs>>

(***************************************************************************)
(* Tensors.  A tensor has a shape, a dtype and its raw element bytes; a    *)
(* collection is a HashMap: a map from names to tensors together with the  *)
(* order in which the map happens to iterate its keys.                     *)
(***************************************************************************)
F32 == <<102, 51, 50>>          \* "f32"
U8 == <<117, 56>>               \* "u8"
NameB == <<98>>                 \* "b"
NameW == <<119>>                \* "w"
NameW2 == <<119, 50>>           \* "w2"

T1 == [shape |-> <<1>>, dtype |-> F32, data |-> <<0, 0, 128, 63>>]
T2 == [shape |-> <<2>>, dtype |-> U8, data |-> <<7, 9>>]

M1 == (NameW :> T1)
M2 == (NameW :> T1) @@ (NameB :> T2)
M3 == (NameW :> T2) @@ (NameB :> T1) @@ (NameW2 :> T2)
M4 == (NameW2 :> T1) @@ (NameW :> T2)

Orders(S) ==
    {o \in [1..Cardinality(S) -> S] : \A i, j \in DOMAIN o : i # j => o[i] # o[j]}

CollectionsOf(maps) ==
    {[keys |-> o, map |-> m] : m \in maps, o \in UNION {Orders(DOMAIN x) : x \in maps}}

HashCollections ==
    {c \in CollectionsOf({M1, M2, M3, M4}) :
        {c.keys[i] : i \in DOMAIN c.keys} = DOMAIN c.map}
CommitCollections == {c \in HashCollections : c.map \in {M1, M2}}

(***************************************************************************)
(* Repository::hash_tensors.                                               *)
(***************************************************************************)
\* Ord for String: byte-wise lexicographic
RECURSIVE str_le(_, _)
str_le(a, b) ==
    IF a = <<>> THEN TRUE
    ELSE IF b = <<>> THEN FALSE
    ELSE IF Head(a) # Head(b) THEN Head(a) < Head(b)
    ELSE str_le(Tail(a), Tail(b))

RECURSIVE insert_sorted(_, _)
insert_sorted(k, s) ==
    IF s = <<>> THEN <<k>>
    ELSE IF str_le(k, Head(s)) THEN <<k>> \o s
    ELSE <<Head(s)>> \o insert_sorted(k, Tail(s))

\* keys.sort()
RECURSIVE sort(_)
sort(keys) ==
    IF keys = <<>> THEN <<>> ELSE insert_sorted(Head(keys), sort(Tail(keys)))

\* Display for Tensor: the values, then "Tensor[<shape>, <dtype>]"
tensor_to_string(t) == t.data \o <<91>> \o t.shape \o <<44>> \o t.dtype \o <<93>>

\* Tensor::write_bytes
write_bytes(t) == t.data

\* Sha512: update appends to the absorbed stream; finalize is taken to be
\* collision free, so the digest is identified with the stream it absorbed
update(hasher, bytes) == hasher \o bytes
finalize(hasher) == hasher

RECURSIVE hash_loop(_, _, _)
hash_loop(hasher, keys, map) ==
    IF keys = <<>> THEN hasher
    ELSE LET key == Head(keys)
             tensor == map[key]
             h1 == update(hasher, key)
             h2 == update(h1, tensor_to_string(tensor))
             h3 == update(h2, tensor.dtype)
             h4 == update(h3, write_bytes(tensor))
         IN  hash_loop(h4, Tail(keys), map)

\* the keys as the HashMap iterates them
unsorted_keys(tensors) == tensors.keys

hash_keys(tensors) == sort(tensors.keys)

hash_tensors(tensors) == finalize(hash_loop(<<>>, hash_keys(tensors), tensors.map))

HashTensors(tensors) ==
    /\ hist' = <<[tensors |-> tensors, hash |-> hash_tensors(tensors)]>>
                    \o SubSeq(hist, 1, IF Len(hist) > 0 THEN 1 ELSE 0)
    /\ UNCHANGED <<procs, dirs, files, last, prev, iter, ncommits, nrefs>>

(***************************************************************************)
(* hex::encode.                                                            *)
(***************************************************************************)
HexDigits == <<"0", "1", "2", "3", "4", "5", "6", "7",
               "8", "9", "a", "b", "c", "d", "e", "f">>

RECURSIVE hex_encode(_)
hex_encode(bytes) ==
    IF bytes = <<>> THEN <<>>
    ELSE <<HexDigits[(Head(bytes) \div 16) + 1], HexDigits[(Head(bytes) % 16) + 1]>>
             \o hex_encode(Tail(bytes))

(***************************************************************************)
(* time::UnixTimestamp and its "%s.%6f" text form: the seconds, a dot and  *)
(* the microseconds in six digits.  The text is kept as the two numbers.   *)
(***************************************************************************)
NanosPerMicro == 1000

timestamp_serialize(t) == <<t.secs, t.nanos \div NanosPerMicro>>
timestamp_deserialize(s) == [secs |-> s[1], nanos |-> s[2] * NanosPerMicro]


(***************************************************************************)
(* Commit and its serde_json form.                                         *)
(***************************************************************************)
Commit(hash, parent_hash, timestamp, message, metadata) ==
    [hash |-> hash, parent_hash |-> parent_hash, timestamp |-> timestamp,
     message |-> message, metadata |-> metadata]

to_string_pretty(commit) ==
    [kind |-> "json", hash |-> commit.hash, parent_hash |-> commit.parent_hash,
     timestamp |-> timestamp_serialize(commit.timestamp),
     message |-> commit.message, metadata |-> commit.metadata]

from_str(c) ==
    IF c.kind = "json"
    THEN Ok(Commit(c.hash, c.parent_hash, timestamp_deserialize(c.timestamp),
                   c.message, c.metadata))
    ELSE Err("SafeTensorError")

commit_path(hex_hash) == CommitsDir \o << hex_hash \o <<".json">> >>
object_path(hex_hash) == ObjectsDir \o <<hex_hash>>

Parents == {None} \cup {Some(hash_tensors(c)) : c \in CommitCollections}

\* what a caller passes along with the tensors, and the clock it meets
CommitArgs ==
    {[message |-> <<"first">>, metadata |-> <<"null">>, parent |-> None,
      now |-> [secs |-> 1700000000, nanos |-> 123456000]],
     [message |-> <<"second">>, metadata |-> <<"{\"epoch\":1}">>,
      parent |-> Some(hash_tensors([keys |-> <<NameW>>, map |-> M1])),
      now |-> [secs |-> 1700000001, nanos |-> 123456789]],
     [message |-> <<"first">>, metadata |-> <<"{\"epoch\":1}">>,
      parent |-> Some(hash_tensors([keys |-> <<NameB, NameW>>, map |-> M2])),
      now |-> [secs |-> 1700000002, nanos |-> 999]]}
HexHashes == {hex_encode(hash_tensors(c)) : c \in CommitCollections} \cup {<<"0", "0">>}

(***************************************************************************)
(* Repository::store_tensors: the outcome of save is dropped.              *)
(***************************************************************************)
save(fs, ds, tensors, path, io) ==
    fs_write(fs, ds, path, [kind |-> "safetensors", tensors |-> tensors.map], io)

store_tensors(fs, ds, tensors, hash, io) ==
    [res |-> Ok(<<>>), files |-> save(fs, ds, tensors, object_path(hash), io).files]

(***************************************************************************)
(* Repository::create_commit.                                              *)
(***************************************************************************)
\* create_commit that also points branch main at the new commit
create_commit_advancing(fs, ds, tensors, message, metadata, parent, now, ioc, ios) ==
    LET hash == hash_tensors(tensors)
        hex_hash == hex_encode(hash)
        commit == Commit(hash, parent, now, message, metadata)
        w == fs_write(fs, ds, commit_path(hex_hash), to_string_pretty(commit), ioc)
        s == store_tensors(w.files, ds, tensors, hex_hash, ios)
        b == fs_write(s.files, ds, HeadsDir \o <<"main">>, Text(hex_hash), "ok")
    IN  IF ~ w.ok THEN [res |-> Err("Io"), files |-> w.files]
        ELSE [res |-> Ok(hex_hash), files |-> b.files]

create_commit(fs, ds, tensors, message, metadata, parent, now, ioc, ios) ==
    LET hash == hash_tensors(tensors)
        hex_hash == hex_encode(hash)
        commit == Commit(hash, parent, now, message, metadata)
        w == fs_write(fs, ds, commit_path(hex_hash), to_string_pretty(commit), ioc)
        s == store_tensors(w.files, ds, tensors, hex_hash, ios)
    IN  IF ~ w.ok THEN [res |-> Err("Io"), files |-> w.files]
        ELSE IF ~ s.res.ok THEN [res |-> s.res, files |-> s.files]
        ELSE [res |-> Ok(hex_hash), files |-> s.files]

CreateCommit(tensors, message, metadata, parent, now, ioc, ios) ==
    LET r == create_commit(files, dirs, tensors, message, metadata, parent,
                           now, ioc, ios)
    IN  /\ ncommits < MaxCommits
        /\ ncommits' = ncommits + 1
        /\ files' = r.files
        /\ Shift
        /\ last' = [op |-> "create_commit", tensors |-> tensors.map,
                    message |-> message, metadata |-> metadata,
                    parent |-> parent, now |-> now, res |-> r.res]
        /\ UNCHANGED <<procs, dirs, iter, hist, nrefs>>

\* the same call made by a caller that does not keep what it returns
CommitUnobserved(tensors, message, metadata, parent, now, ioc, ios) ==
    /\ ncommits < MaxCommits
    /\ ncommits' = ncommits + 1
    /\ files' = create_commit(files, dirs, tensors, message, metadata, parent,
                              now, ioc, ios).files
    /\ UNCHANGED <<procs, dirs, last, prev, iter, hist, nrefs>>

(***************************************************************************)
(* Repository::get_commit: `?` turns the io::Error of read_to_string into  *)
(* WTSError::Io.                                                           *)
(***************************************************************************)
get_commit(fs, hash) ==
    LET r == read_to_string(fs, commit_path(hash))
    IN  IF ~ r.ok THEN Err("Io") ELSE from_str(r.val)

GetCommit(hash) ==
    /\ Shift
    /\ last' = [op |-> "get_commit", hash |-> hash, res |-> get_commit(files, hash)]
    /\ UNCHANGED <<procs, dirs, files, iter, hist, ncommits, nrefs>>

(***************************************************************************)
(* Repository::get_obj(path): candle's load of the file at path.           *)
(***************************************************************************)
load(fs, path) ==
    IF path \in DOMAIN fs /\ fs[path].kind = "safetensors"
    THEN Ok(fs[path].tensors)
    ELSE Err("Other")

get_obj(fs, path) == load(fs, path)

GetObj(hash) ==
    /\ Shift
    /\ last' = [op |-> "get_obj", hash |-> hash, res |-> get_obj(files, object_path(hash))]
    /\ UNCHANGED <<procs, dirs, files, iter, hist, ncommits, nrefs>>

(***************************************************************************)
(* CommitIterator.  `out` is what next() has returned since the iterator   *)
(* was built: Some(result) or None; `start` is the hash it was built with  *)
(* and `at` the number of create_commit calls made before it was built.    *)
(***************************************************************************)
NoIter == [built |-> FALSE, start |-> None, at |-> 0,
           current_hash |-> None, out |-> <<>>]

IterNew(start) ==
    /\ iter' = [built |-> TRUE, start |-> start, at |-> ncommits,
                current_hash |-> start, out |-> <<>>]
    /\ UNCHANGED <<procs, dirs, files, last, prev, hist, ncommits, nrefs>>

\* next() that does not move to the parent
next_stuck(fs, current_hash) ==
    IF ~ current_hash.some THEN [item |-> None, current_hash |-> current_hash]
    ELSE [item |-> Some(get_commit(fs, hex_encode(current_hash.val))),
          current_hash |-> current_hash]

\* next() that stops after the first commit it yields
next_forgetful(fs, current_hash) ==
    IF ~ current_hash.some THEN [item |-> None, current_hash |-> current_hash]
    ELSE [item |-> Some(get_commit(fs, hex_encode(current_hash.val))),
          current_hash |-> None]

next(fs, current_hash) ==
    IF ~ current_hash.some THEN [item |-> None, current_hash |-> current_hash]
    ELSE LET hex_hash == hex_encode(current_hash.val)
             commit_result == get_commit(fs, hex_hash)
         IN  IF commit_result.ok
             THEN [item |-> Some(commit_result),
                   current_hash |-> commit_result.val.parent_hash]
             ELSE [item |-> Some(commit_result), current_hash |-> None]

IterNext ==
    LET r == next(files, iter.current_hash)
    IN  /\ iter.built
        /\ Len(iter.out) < MaxIter
        /\ iter' = [iter EXCEPT !.current_hash = r.current_hash,
                                  !.out = Append(iter.out, r.item)]
        /\ UNCHANGED <<procs, dirs, files, last, prev, hist, ncommits, nrefs>>

(***************************************************************************)
(* The same operations as several processes run them, one system call at   *)
(* a time.  std::fs::write(path, c) is File::create(path), which creates   *)
(* the file or truncates it to no bytes, followed by write_all(c), which   *)
(* writes c from offset 0; safetensors' save creates the file at the path  *)
(* it is given and writes the blob into it.  Another process can run       *)
(* between the two calls, and a process can stop for good (a crash)        *)
(* before any of its steps.                                                *)
(***************************************************************************)
Procs == {"p", "q"}

\* pc names the step the process takes next
NoProc == [op |-> "none", pc |-> "idle", hex |-> <<>>, path |-> <<>>,
           content |-> Text(<<>>), tensors |-> << >>, res |-> Ok(<<>>),
           rank |-> 0]

EmptyFile == Text(<<>>)

\* File::create(path): the file exists afterwards and holds no bytes
file_create(fs, ds, path, io) == fs_write(fs, ds, path, EmptyFile, io)

\* the bytes of `new` laid over those of `old` from offset 0: what lies
\* beyond the end of `new` stays.  Text is laid over text token by token;
\* a record or a blob laid over a different one is kept as the pair
Overlay(old, new) ==
    IF old = EmptyFile \/ old = new THEN new
    ELSE IF old.kind = "text" /\ new.kind = "text"
    THEN Text(new.text \o SubSeq(old.text, Len(new.text) + 1, Len(old.text)))
    ELSE [kind |-> "overlaid", head |-> new, tail |-> old]

\* write_all(content) on the file opened at path
write_all(fs, path, content, io) ==
    IF io = "err" \/ path \notin DOMAIN fs
    THEN [ok |-> FALSE, files |-> fs]
    ELSE [ok |-> TRUE, files |-> [fs EXCEPT ![path] = Overlay(@, content)]]

Finished == {q \in Procs : procs[q].rank > 0}

\* the call of process p returns res
Return(p, res) ==
    procs' = [procs EXCEPT ![p] = [@ EXCEPT !.pc = "done", !.res = res,
                                            !.rank = Cardinality(Finished) + 1]]

Goto(p, pc) == procs' = [procs EXCEPT ![p].pc = pc]

\* process p calls create_commit: lines 131-152 build the record
BeginCreateCommit(p, tensors, message, metadata, parent, now) ==
    LET hash == hash_tensors(tensors)
        hex_hash == hex_encode(hash)
        commit == Commit(hash, parent, now, message, metadata)
    IN  /\ procs[p].pc = "idle"
        /\ procs' = [procs EXCEPT ![p] =
                        [NoProc EXCEPT !.op = "create_commit",
                                       !.pc = "commit_create",
                                       !.hex = hex_hash,
                                       !.path = commit_path(hex_hash),
                                       !.content = to_string_pretty(commit),
                                       !.tensors = tensors]]
        /\ UNCHANGED <<dirs, files, last, prev, iter, hist, ncommits, nrefs>>

\* line 154, first half: fs::write creates commits/<hash>.json
CommitCreate(p, io) ==
    LET w == file_create(files, dirs, procs[p].path, io)
    IN  /\ procs[p].pc = "commit_create"
        /\ files' = w.files
        /\ IF w.ok THEN Goto(p, "commit_write") ELSE Return(p, Err("Io"))
        /\ UNCHANGED <<dirs, last, prev, iter, hist, ncommits, nrefs>>

\* line 154, second half: the record is written; store_tensors is next
CommitWrite(p, io) ==
    LET w == write_all(files, procs[p].path, procs[p].content, io)
    IN  /\ procs[p].pc = "commit_write"
        /\ files' = w.files
        /\ IF w.ok THEN Goto(p, "object_create") ELSE Return(p, Err("Io"))
        /\ UNCHANGED <<dirs, last, prev, iter, hist, ncommits, nrefs>>

\* lines 157 and 193: save creates objects/<hash>; its failure is dropped
ObjectCreate(p, io) ==
    LET w == file_create(files, dirs, object_path(procs[p].hex), io)
    IN  /\ procs[p].pc = "object_create"
        /\ files' = w.files
        /\ IF w.ok THEN Goto(p, "object_write") ELSE Return(p, Ok(procs[p].hex))
        /\ UNCHANGED <<dirs, last, prev, iter, hist, ncommits, nrefs>>

\* save writes the blob; create_commit returns Ok(hash) whatever happened
ObjectWrite(p, io) ==
    LET blob == [kind |-> "safetensors", tensors |-> procs[p].tensors.map]
        w == write_all(files, object_path(procs[p].hex), blob, io)
    IN  /\ procs[p].pc = "object_write"
        /\ files' = w.files
        /\ Return(p, Ok(procs[p].hex))
        /\ UNCHANGED <<dirs, last, prev, iter, hist, ncommits, nrefs>>

\* process p calls create_branch or create_tag
BeginCreateRef(p, op, dir, name, commit_hash) ==
    /\ procs[p].pc = "idle"
    /\ procs' = [procs EXCEPT ![p] =
                    [NoProc EXCEPT !.op = op, !.pc = "ref_create",
                                   !.path = dir \o <<name>>,
                                   !.content = Text(commit_hash)]]
    /\ UNCHANGED <<dirs, files, last, prev, iter, hist, ncommits, nrefs>>

BeginCreateBranch(p, name, commit_hash) ==
    BeginCreateRef(p, "create_branch", HeadsDir, name, commit_hash)

BeginCreateTag(p, name, commit_hash) ==
    BeginCreateRef(p, "create_tag", TagsDir, name, commit_hash)

\* lines 201 and 208, first half: fs::write creates the reference file
RefCreate(p, io) ==
    LET w == file_create(files, dirs, procs[p].path, io)
    IN  /\ procs[p].pc = "ref_create"
        /\ files' = w.files
        /\ IF w.ok THEN Goto(p, "ref_write") ELSE Return(p, Err("Io"))
        /\ UNCHANGED <<dirs, last, prev, iter, hist, ncommits, nrefs>>

\* lines 201 and 208, second half: the hash is written
RefWrite(p, io) ==
    LET w == write_all(files, procs[p].path, procs[p].content, io)
    IN  /\ procs[p].pc = "ref_write"
        /\ files' = w.files
        /\ Return(p, IF w.ok THEN Ok(<<>>) ELSE Err("Io"))
        /\ UNCHANGED <<dirs, last, prev, iter, hist, ncommits, nrefs>>

\* process p calls get_commit(hash) and reads the file as it is now
ReadCommit(p, hash) ==
    /\ procs[p].pc = "idle"
    /\ procs' = [procs EXCEPT ![p] =
                    [NoProc EXCEPT !.op = "get_commit", !.pc = "done",
                                   !.hex = hash,
                                   !.res = get_commit(files, hash),
                                   !.rank = Cardinality(Finished) + 1]]
    /\ UNCHANGED <<dirs, files, last, prev, iter, hist, ncommits, nrefs>>

\* process p stops before its next step and takes no other
Crash(p) ==
    /\ procs[p].pc \notin {"idle", "done", "crashed"}
    /\ procs' = [procs EXCEPT ![p] = [@ EXCEPT !.pc = "crashed",
                                               !.res = ErrWith("crashed", procs[p].pc)]]
    /\ UNCHANGED <<dirs, files, last, prev, iter, hist, ncommits, nrefs>>

(***************************************************************************)
(* Specifications.                                                         *)
(***************************************************************************)
Init ==
    /\ dirs \in {{}, {<<>>}}
    /\ files = << >>
    /\ last = NoCall
    /\ prev = NoCall
    /\ iter = NoIter
    /\ hist = <<>>
    /\ ncommits = 0
    /\ nrefs = 0
    /\ procs = [p \in Procs |-> NoProc]

Setup ==
    \/ \E io \in IoOutcomes : New(io)
    \/ \E failAt \in 0..5 : InitRepo(failAt)
    \/ Open

RefOps ==
    \/ \E n \in RefNames, h \in RefHashes, io \in IoOutcomes : CreateBranch(n, h, io)
    \/ \E n \in RefNames, h \in RefHashes, io \in IoOutcomes : CreateTag(n, h, io)
    \/ \E p \in RefPaths : GetReference(p)

CommitWrites ==
    \E c \in CommitCollections, a \in CommitArgs, ioc \in IoOutcomes,
       ios \in IoOutcomes :
        CreateCommit(c, a.message, a.metadata, a.parent, a.now, ioc, ios)

CommitReads ==
    \/ \E h \in HexHashes : GetCommit(h)
    \/ \E h \in HexHashes : GetObj(h)

IterOps ==
    \/ \E p \in Parents : IterNew(p)
    \/ IterNext

\* the reference store
NextRefs == Setup \/ RefOps
SpecRefs == Init /\ [][NextRefs]_vars

\* the commit and object stores
NextCommits == Setup \/ CommitWrites \/ CommitReads
SpecCommits == Init /\ [][NextCommits]_vars

\* the commit iterator over the commit store
HistoryWrites ==
    \E c \in CommitCollections, a \in CommitArgs, ioc \in IoOutcomes,
       ios \in IoOutcomes :
        CommitUnobserved(c, a.message, a.metadata, a.parent, a.now, ioc, ios)

NextIter == (\E failAt \in 0..5 : InitRepo(failAt)) \/ HistoryWrites \/ IterOps
SpecIter == Init /\ [][NextIter]_vars

\* the whole repository: references, commits and objects together; a step
\* that leaves both call counters alone is an init, one that raises nrefs
\* is a create_branch or create_tag, one that raises ncommits a create_commit
Digests == {hex_encode(hash_tensors(c)) : c \in CommitCollections}

RefWrites ==
    \/ \E n \in RefNames, h \in Digests : BranchUnobserved(n, h, "ok")
    \/ \E n \in RefNames, h \in Digests : TagUnobserved(n, h, "ok")

RootWrites ==
    \E c \in CommitCollections, a \in {x \in CommitArgs : ~x.parent.some},
       ioc \in IoOutcomes, ios \in IoOutcomes :
        CreateCommit(c, a.message, a.metadata, a.parent, a.now, ioc, ios)

NextRepo == (\E failAt \in {0, 5} : InitRepo(failAt)) \/ RefWrites \/ RootWrites
SpecRepo == Init /\ [][NextRepo]_vars

\* two processes at work on an initialised repository, step by step
StepArgs == {a \in CommitArgs : ~ a.parent.some}

NextSteps ==
    \/ InitRepo(0)
    \/ \E p \in Procs, c \in CommitCollections, a \in StepArgs :
          BeginCreateCommit(p, c, a.message, a.metadata, a.parent, a.now)
    \/ \E p \in Procs, n \in RefNames, h \in RefHashes : BeginCreateBranch(p, n, h)
    \/ \E p \in Procs, n \in RefNames, h \in RefHashes : BeginCreateTag(p, n, h)
    \/ \E p \in Procs, h \in HexHashes : ReadCommit(p, h)
    \/ \E p \in Procs, io \in IoOutcomes :
          \/ CommitCreate(p, io)
          \/ CommitWrite(p, io)
          \/ ObjectCreate(p, io)
          \/ ObjectWrite(p, io)
          \/ RefCreate(p, io)
          \/ RefWrite(p, io)
    \/ \E p \in Procs : Crash(p)

SpecSteps == Init /\ [][NextSteps]_vars

\* the content hasher
NextHash == \E c \in HashCollections : HashTensors(c)
SpecHash == Init /\ [][NextHash]_vars

Next == Setup \/ RefOps \/ CommitWrites \/ CommitReads \/ IterOps \/ NextHash
Spec == Init /\ [][Next]_vars

(***************************************************************************)
(* Properties of the reference store and of open, under SpecRefs.          *)
(***************************************************************************)
BranchPath(name) == << <<"refs">>, <<"heads">>, name >>

\* the last call read the branch that the write before it had set
ReadAfterCreateBranch ==
    /\ prev.op = "create_branch"
    /\ prev.res.ok
    /\ last.op = "get_reference"
    /\ last.path = BranchPath(prev.name)

NoOuterWhitespace(s) == s = <<>> \/ (Head(s) \notin White /\ s[Len(s)] \notin White)

\* C1, as stated: create_branch(n, H) followed, with no write in between,
\* by get_reference("refs/heads/n") returns H exactly, for every H.
C1_Exact == ReadAfterCreateBranch => last.res = Ok(prev.hash)

\* C1, amended: a successful create_branch(n, H) followed, with no write in
\* between, by get_reference("refs/heads/n") returns H without its leading
\* and trailing whitespace, which is H exactly when H has none.
C1_Trimmed ==
    ReadAfterCreateBranch =>
        /\ last.res = Ok(Trim(prev.hash))
        /\ NoOuterWhitespace(prev.hash) => last.res = Ok(prev.hash)

C1_Witness ==
    /\ ReadAfterCreateBranch
    /\ prev.hash = <<" ", "a", "b">>
    /\ last.res = Ok(<<"a", "b">>)

\* C4: open() fails with EmptyRepository whenever the directory it resolves
\* holds no .wts control directory, and succeeds once init has run there.
C4_OpenChecksControlDir ==
    last.op = "open" =>
        IF is_initialized THEN last.res.ok ELSE last.res = Err("EmptyRepository")

\* C9: get_reference(path) fails with InvalidReference carrying the path
\* whenever no file exists at that path, and it changes nothing on disk.
C9_MissingReference ==
    [][last'.op = "get_reference" =>
        /\ UNCHANGED <<procs, dirs, files>>
        /\ (WtsDir \o last'.path) \notin DOMAIN files =>
                last'.res = ErrWith("InvalidReference", last'.path)]_vars

C9_Witness ==
    /\ last.op = "get_reference"
    /\ last.path = BranchPath(<<"main">>)
    /\ HeadsDir \in dirs
    /\ (WtsDir \o last.path) \notin DOMAIN files
    /\ last.res = ErrWith("InvalidReference", last.path)

(***************************************************************************)
(* Properties of the commit and object stores, under SpecCommits.          *)
(***************************************************************************)
\* the digest of a tensor map, whatever order its keys come in
DigestOf(map) == hash_tensors(CHOOSE c \in HashCollections : c.map = map)

CommitFiles == {p \in DOMAIN files : Parent(p) = CommitsDir}

\* the last two writes were successful commits of the same tensors
Recommitted ==
    /\ prev.op = "create_commit" /\ prev.res.ok
    /\ last.op = "create_commit" /\ last.res.ok
    /\ prev.tensors = last.tensors

\* C5: two create_commit calls over the same tensors return the same hex
\* digest whatever message, metadata and parent they get, and after the
\* second the store holds exactly one record under that digest, carrying
\* the second call's message, metadata and parent.
C5_SecondCommitReplaces ==
    Recommitted =>
        /\ last.res = prev.res
        /\ commit_path(last.res.val) \in DOMAIN files
        /\ LET rec == files[commit_path(last.res.val)]
           IN  /\ rec.kind = "json"
               /\ rec.message = last.message
               /\ rec.metadata = last.metadata
               /\ rec.parent_hash = last.parent
        /\ Cardinality({p \in CommitFiles :
                            /\ files[p].kind = "json"
                            /\ hex_encode(files[p].hash) = last.res.val}) = 1

C5_Witness ==
    /\ Recommitted
    /\ prev.message # last.message
    /\ prev.metadata # last.metadata
    /\ prev.parent # last.parent
    /\ files[commit_path(last.res.val)].message = last.message

\* C6: after a successful create_commit(c, message, metadata, parent)
\* returning D, get_commit(D), with no commit in between, returns the
\* record that was written: hash = digest(c), the parent as supplied, the
\* message, the metadata and the same timestamp.
C6_CommitRoundTrip ==
    ( /\ prev.op = "create_commit" /\ prev.res.ok
      /\ last.op = "get_commit" /\ last.hash = prev.res.val )
    => last.res = Ok(Commit(DigestOf(prev.tensors), prev.parent, prev.now,
                            prev.message, prev.metadata))

\* C7: whenever create_commit returns success with digest D, a blob exists
\* under objects/D and get_obj reads back the tensors that were committed.
C7_ObjectPersisted ==
    (last.op = "create_commit" /\ last.res.ok) =>
        /\ object_path(last.res.val) \in DOMAIN files
        /\ get_obj(files, object_path(last.res.val)) = Ok(last.tensors)

\* C8: get_commit(hash) fails with ObjectNotFound whenever no commit record
\* is stored under that hash.
C8_MissingCommitNotFound ==
    (last.op = "get_commit" /\ commit_path(last.hash) \notin DOMAIN files)
        => (~ last.res.ok /\ last.res.err = "ObjectNotFound")

(***************************************************************************)
(* Properties of the commit iterator, under SpecIter.                      *)
(***************************************************************************)
\* the iterator was built at a stored commit and no create_commit has
\* run since
StartedAtStored ==
    /\ iter.built
    /\ iter.at = ncommits
    /\ iter.start.some
    /\ get_commit(files, hex_encode(iter.start.val)).ok

StartCommit == get_commit(files, hex_encode(iter.start.val)).val

\* C2: an iterator started at a stored commit without a parent yields that
\* commit, as Ok, and nothing more: every later next() returns None.
C2_RootYieldsOnce ==
    (StartedAtStored /\ ~ StartCommit.parent_hash.some) =>
        \A i \in DOMAIN iter.out :
            iter.out[i] = IF i = 1 THEN Some(Ok(StartCommit)) ELSE None

C2_Witness ==
    /\ StartedAtStored
    /\ ~ StartCommit.parent_hash.some
    /\ iter.out = <<Some(Ok(StartCommit)), None>>

\* C3: an iterator started at a stored commit whose parent has no stored
\* record yields that commit, then an ObjectNotFound failure, then None.
C3_DanglingParentNotFound ==
    ( /\ StartedAtStored
      /\ StartCommit.parent_hash.some
      /\ commit_path(hex_encode(StartCommit.parent_hash.val)) \notin DOMAIN files )
    => \A i \in DOMAIN iter.out :
          CASE i = 1 -> iter.out[i] = Some(Ok(StartCommit))
            [] i = 2 -> /\ iter.out[i].some
                        /\ ~ iter.out[i].val.ok
                        /\ iter.out[i].val.err = "ObjectNotFound"
            [] OTHER -> iter.out[i] = None

(***************************************************************************)
(* Properties of the content hasher, under SpecHash.                       *)
(***************************************************************************)
\* C10: hash_tensors gives the same digest to any two collections holding
\* the same entries, whatever the order their keys are iterated in.
C10_OrderIndependent ==
    \A i, j \in DOMAIN hist :
        hist[i].tensors.map = hist[j].tensors.map => hist[i].hash = hist[j].hash

C10_Witness ==
    /\ Len(hist) = 2
    /\ hist[1].tensors.map = hist[2].tensors.map
    /\ hist[1].tensors.keys # hist[2].tensors.keys
    /\ Cardinality(DOMAIN hist[1].tensors.map) = 3
    /\ hist[1].hash = hist[2].hash

(***************************************************************************)
(* Properties of the repository as a whole, under SpecRepo.                *)
(***************************************************************************)
FilesIn(dir) == {p \in DOMAIN files : Parent(p) = dir}

\* the files at the paths in `changed` apart, the step leaves every file
\* and every directory as it was
OnlyChanges(changed) ==
    /\ dirs' = dirs
    /\ \A p \in (DOMAIN files \cup DOMAIN files') \ changed :
          /\ p \in DOMAIN files
          /\ p \in DOMAIN files'
          /\ files'[p] = files[p]

\* C11: init on a repository that holds objects, commit records and
\* references succeeds (when no I/O fails), leaves every object, commit
\* record, branch and tag as it was, and a second init changes nothing.
C11_InitKeepsStore ==
    [][(last'.op = "init" /\ nrefs' = nrefs /\ ncommits' = ncommits) =>
        /\ dirs \subseteq dirs'
        /\ \A p \in (DOMAIN files \cup DOMAIN files') \ {HeadPath} :
              /\ p \in DOMAIN files
              /\ p \in DOMAIN files'
              /\ files'[p] = files[p]
        /\ InitRepo(0) => last'.res.ok
        /\ (last.op = "init" /\ last.res.ok /\ last'.res.ok) =>
              (dirs' = dirs /\ files' = files)]_vars

C11_Witness ==
    /\ last.op = "init"
    /\ last.res.ok
    /\ FilesIn(ObjectsDir) # {}
    /\ FilesIn(CommitsDir) # {}
    /\ FilesIn(HeadsDir) # {}
    /\ FilesIn(TagsDir) # {}

BranchFile(name) == HeadsDir \o <<name>>
TagFile(name) == TagsDir \o <<name>>

Started ==
    /\ iter.built
    /\ iter.at = ncommits
    /\ iter.start.some

\* C18: the first element is the outcome of reading the record under the
\* starting hash, every later one the outcome of reading the record under
\* the parent_hash of the Ok element just before it, and None follows a
\* commit without a parent, a failure and None.
C18_FollowsParents ==
    Started =>
        \A i \in DOMAIN iter.out :
            iter.out[i] =
                IF i = 1
                THEN Some(get_commit(files, hex_encode(iter.start.val)))
                ELSE LET before == iter.out[i - 1]
                     IN  IF /\ before.some
                            /\ before.val.ok
                            /\ before.val.val.parent_hash.some
                         THEN Some(get_commit(files,
                                  hex_encode(before.val.val.parent_hash.val)))
                         ELSE None

\* an intact chain of two commits: child, its parent (a root), then None
C18_Witness ==
    /\ Started
    /\ Len(iter.out) = 3
    /\ iter.out[1].some /\ iter.out[1].val.ok
    /\ iter.out[1].val.val.hash = iter.start.val
    /\ iter.out[2].some /\ iter.out[2].val.ok
    /\ iter.out[1].val.val.parent_hash = Some(iter.out[2].val.val.hash)
    /\ iter.out[1].val.val.hash # iter.out[2].val.val.hash
    /\ ~ iter.out[2].val.val.parent_hash.some
    /\ iter.out[3] = None

\* the hashes of the stored commits met from h along parent_hash links, in
\* at most n steps
RECURSIVE ChainFrom(_, _, _)
ChainFrom(fs, h, n) ==
    IF n = 0 \/ ~ h.some THEN <<>>
    ELSE LET r == get_commit(fs, hex_encode(h.val))
         IN  IF r.ok THEN <<h.val>> \o ChainFrom(fs, r.val.parent_hash, n - 1)
             ELSE <<>>

\* one step more than there are records: a chain that long repeats a hash
Stored == Cardinality(FilesIn(CommitsDir))
NoRepeat(seq) == \A i, j \in DOMAIN seq : seq[i] = seq[j] => i = j
StoredHashes ==
    {h \in {hash_tensors(c) : c \in CommitCollections} :
        commit_path(hex_encode(h)) \in DOMAIN files}

\* C16: whatever parents the callers of create_commit supplied, the
\* parent_hash links of the stored commits contain no cycle, and an
\* iterator started at a stored commit returns None once it has yielded
\* at most every stored commit and one failure.
C16_HistoryFinite ==
    /\ \A h \in StoredHashes : NoRepeat(ChainFrom(files, Some(h), Stored + 1))
    /\ (Started /\ iter.start.val \in StoredHashes) =>
          \A i \in DOMAIN iter.out : i > Stored + 1 => iter.out[i] = None

(***************************************************************************)
(* Writes seen step by step, under SpecSteps.                              *)
(***************************************************************************)
\* C12: in every state, those between the steps of a create_commit and
\* those a failed or interrupted create_commit leaves included, a commit
\* record is stored under a digest only if an object is stored under it.
C12_ObjectBeforeRecord ==
    \A d \in HexHashes :
        get_commit(files, d).ok => object_path(d) \in DOMAIN files

\* C13: when a process crashes during store_tensors, objects/<digest> is
\* absent or holds the complete blob.
C13_ObjectWriteAtomic ==
    \A p \in Procs :
        (procs[p].pc = "crashed"
            /\ procs[p].res.val \in {"object_create", "object_write"}) =>
            \/ object_path(procs[p].hex) \notin DOMAIN files
            \/ get_obj(files, object_path(procs[p].hex)) = Ok(procs[p].tensors.map)

IsRefWrite(p) == procs[p].op \in {"create_branch", "create_tag"}

\* C14: once two processes' writes of one reference have both completed,
\* the reference holds the hash of the write that completed last: read as
\* get_reference reads it (outer whitespace trimmed), the file gives that
\* hash and no other, empty, truncated or mixed value.
C14_LastWriterWins ==
    \A p, q \in Procs :
        ( /\ p # q
          /\ IsRefWrite(p) /\ IsRefWrite(q)
          /\ procs[p].path = procs[q].path
          /\ procs[p].res.ok /\ procs[q].res.ok
          /\ procs[p].rank > 0
          /\ procs[q].rank > procs[p].rank )
        => trim_content(files[procs[q].path]) = trim_content(procs[q].content)

\* C15: a get_commit that runs while other processes run create_commit
\* returns a complete record or finds none: never a deserialization failure.
C15_ReadSeesWholeRecord ==
    \A p \in Procs :
        (procs[p].op = "get_commit" /\ procs[p].pc = "done") =>
            \/ procs[p].res.ok
            \/ procs[p].res.err # "SafeTensorError"

====
